---- MODULE Spec2Model ----
(***************************************************************************)
(* QuickSearch pino transport: the buffering / flush scheduler of          *)
(* quickSearchTransport (buffer, flush timer, closed and flushing flags)   *)
(* together with QuickSearchHttpClient (sendEvents, sendEventWithRetry,    *)
(* sendEvent, isNonRetryableError).                                        *)
(*                                                                         *)
(* JavaScript runs every handler to its first await without preemption,    *)
(* so one action is one handler run: an addToBuffer call with the flush    *)
(* it triggers, a timer callback, a close() call, the completion of one    *)
(* fetch, the expiry of one backoff sleep, the resumption of flush() after *)
(* sendEvents, the resumption of close() after its flush.                  *)
(***************************************************************************)
EXTENDS Integers, Sequences, FiniteSets, TLC

\* ------------------------------------------------------------------ bounds
\* events the producer offers in one run of the transport
MaxEvents == 3
\* events the producer offers in a run checked for progress
MaxEventsLive == 2
\* largest configured queueSizeLimit
MaxQueue == 2
\* largest configured batchSize
MaxBatch == 3
\* largest configured retryAttempts of the transport runs
MaxRetryT == 1
\* largest configured retryAttempts of the delivery-client runs
MaxRetry == 2
\* numeric levels range over -MaxLevel..MaxLevel
MaxLevel == 65

EventIds == 1..MaxEvents

QueueSizeLimits == 0..MaxQueue
BatchSizes == 1..MaxBatch
\* retryDelay values in milliseconds (1000 is the default)
RetryDelays == {1, 1000}
\* DEFAULTS.timeout, in milliseconds
DefaultTimeout == 30000
Timeouts == {1, DefaultTimeout}

VARIABLES
    config,      \* merged options: batchSize, queueSizeLimit, retryAttempts, retryDelay, timeout
    buffer,      \* state.buffer
    flushTimer,  \* state.flushTimer is set (TRUE) or null (FALSE)
    closed,      \* state.closed
    flushing,    \* state.flushing
    batches,     \* the event arrays handed to httpClient.sendEvents, in call order
    awaiting,    \* index of the batch whose sendEvents flush() is suspended on, 0 if none
    sends,       \* per event: the sendEventWithRetry call made for it
    closePc,     \* position of the (first) close() call
    nextId,      \* next event the producer offers
    lastOp,      \* the handler that ran last and what its flush() call did
    promises,    \* per batch: state of the sendEvents and flush promises
    logObj,      \* the pino record processLogs is looking at
    logOut       \* what processLogs computed for logObj

vars == <<config, buffer, flushTimer, closed, flushing, batches, awaiting,
          sends, closePc, nextId, lastOp, promises, logObj, logOut>>

\* the variables of the level filter and formatter
levelVars == <<logObj, logOut>>

\* ------------------------------------------------------------ pure helpers
Range(s) == {s[i] : i \in 1..Len(s)}

Max(a, b) == IF a >= b THEN a ELSE b

RECURSIVE Pow2(_)
Pow2(n) == IF n = 0 THEN 1 ELSE 2 * Pow2(n - 1)

DigitChar(d) == <<"0", "1", "2", "3", "4", "5", "6", "7", "8", "9">>[d + 1]

\* String(status): the decimal digits of a non-negative integer
RECURSIVE DecimalChars(_)
DecimalChars(n) ==
    IF n < 10 THEN <<DigitChar(n)>>
    ELSE Append(DecimalChars(n \div 10), DigitChar(n % 10))

\* String.prototype.startsWith
StartsWith(s, p) == Len(s) >= Len(p) /\ SubSeq(s, 1, Len(p)) = p

\* ---------------------------------------------------- HTTP attempt outcomes
Response(st, js) == [kind |-> "response", status |-> st, json |-> js]
\* the per-attempt timeout fired: fetch rejects with an AbortError
Abort == [kind |-> "abort", status |-> 0, json |-> FALSE]
\* fetch rejects with a network-level TypeError
NetworkFailure == [kind |-> "network", status |-> 0, json |-> FALSE]

\* error.code is undefined
NoCode == <<>>
NoError == [name |-> "none", code |-> NoCode]

\* `HTTP_${response.status}`
HttpCode(status) == <<"H", "T", "T", "P", "_">> \o DecimalChars(status)
TimeoutCode == <<"T", "I", "M", "E", "O", "U", "T">>

\* response.ok
ResponseOk(status) == status >= 200 /\ status <= 299

\* sendEvent: what one attempt returns or throws for a given outcome of fetch
sendEvent(o) ==
    IF o.kind = "abort"
      THEN [ok |-> FALSE, error |-> [name |-> "Error", code |-> TimeoutCode]]
    ELSE IF o.kind = "network"
      THEN [ok |-> FALSE, error |-> [name |-> "TypeError", code |-> NoCode]]
    ELSE IF ~ResponseOk(o.status)
      THEN [ok |-> FALSE, error |-> [name |-> "Error", code |-> HttpCode(o.status)]]
    ELSE IF ~o.json
      THEN [ok |-> FALSE, error |-> [name |-> "SyntaxError", code |-> NoCode]]
    ELSE [ok |-> TRUE, error |-> NoError]

isNonRetryableErrorNever(error) == FALSE

isNonRetryableError(error) ==
    /\ error.code # NoCode
    /\ StartsWith(error.code, <<"H", "T", "T", "P", "_", "4">>)
    /\ error.code # HttpCode(429)

BackoffDelayOffByOne(retryDelay, attempt) == retryDelay * Pow2(attempt + 1)

\* this.retryDelay * Math.pow(2, attempt)
BackoffDelay(retryDelay, attempt) == retryDelay * Pow2(attempt)

\* ------------------------------------------------------ sendEventWithRetry
NoSend == [phase |-> "none", batch |-> 0, attempt |-> 0, lastError |-> NoError,
           outcomes |-> <<>>, delays |-> <<>>, timers |-> {}]

ArmTimeoutFirstOnly(attempt, cfg) ==
    IF attempt = 0 THEN {[attempt |-> 0, ms |-> cfg.timeout]} ELSE {}

\* setTimeout(() => controller.abort(), this.timeout) for the controller of
\* one attempt
ArmTimeout(attempt, cfg) == {[attempt |-> attempt, ms |-> cfg.timeout]}

\* finally { clearTimeout(timeoutId) }
ClearTimeout(timers, attempt) == {t \in timers : t.attempt # attempt}

\* the call runs synchronously up to the first fetch (attempt 0)
NewSend(b, cfg) ==
    [phase |-> "http", batch |-> b, attempt |-> 0, lastError |-> NoError,
     outcomes |-> <<>>, delays |-> <<>>, timers |-> ArmTimeout(0, cfg)]

MoreAttemptsOffByOne(attempt, retryAttempts) == attempt + 1 < retryAttempts

\* if (attempt < this.retryAttempts): another pass of the loop follows
MoreAttempts(attempt, retryAttempts) == attempt < retryAttempts

\* the fetch of send s completes with outcome o
AfterAttempt(s, o, cfg) ==
    LET r == sendEvent(o)
        s1 == [s EXCEPT !.outcomes = Append(@, o),
                        !.timers = ClearTimeout(@, s.attempt)]
    IN  IF r.ok THEN [s1 EXCEPT !.phase = "ok"]
        ELSE IF isNonRetryableError(r.error)
          THEN [s1 EXCEPT !.phase = "failed", !.lastError = r.error]
        ELSE IF MoreAttempts(s.attempt, cfg.retryAttempts)
          THEN [s1 EXCEPT !.phase = "sleep", !.lastError = r.error,
                          !.delays = Append(@, BackoffDelay(cfg.retryDelay, s.attempt))]
        ELSE [s1 EXCEPT !.phase = "failed", !.lastError = r.error]

\* the backoff sleep of send s is over: next pass of the loop, next fetch
AfterSleep(s, cfg) ==
    [s EXCEPT !.phase = "http", !.attempt = @ + 1,
              !.timers = @ \cup ArmTimeout(s.attempt + 1, cfg)]

\* number of HTTP attempts send s has made so far
Tries(s) == Len(s.outcomes) + (IF s.phase = "http" THEN 1 ELSE 0)

\* ------------------------------------------------------------- addToBuffer
AppendStepNoEvict(buf, e, limit) == Append(buf, e)

AppendStepDropNewest(buf, e, limit) ==
    IF Len(buf) >= limit /\ Len(buf) > 0
      THEN Append(SubSeq(buf, 1, Len(buf) - 1), e)
      ELSE Append(buf, e)

AppendStepEvictEarly(buf, e, limit) ==
    IF Len(buf) + 1 >= limit
      THEN (IF Len(buf) = 0 THEN <<e>> ELSE Append(Tail(buf), e))
      ELSE Append(buf, e)

\* shift() when the buffer is at the limit (a no-op on an empty array), then push
AppendStep(buf, e, limit) ==
    IF Len(buf) >= limit
      THEN (IF Len(buf) = 0 THEN <<e>> ELSE Append(Tail(buf), e))
      ELSE Append(buf, e)

\* ------------------------------------------------------------------- flush
FlushSkipsIgnoringFlag(buf, fl) == Len(buf) = 0

\* if (state.buffer.length === 0 || state.flushing) return
FlushSkips(buf, fl) == Len(buf) = 0 \/ fl

SpliceFirst(buf) == <<Head(buf)>>

\* state.buffer.splice(0): the events flush() takes from the buffer
SpliceAll(buf) == buf

SendTargetsSkipFirst(events) == {events[i] : i \in 2..Len(events)}

\* events.map(event => this.sendEventWithRetry(event)): the events a send is
\* started for
SendTargets(events) == Range(events)

FlushingAfterFlushKept(fl) == fl

\* finally { state.flushing = false }
FlushingAfterFlush(fl) == FALSE

\* flush() called by handler op (with argument arg) when state.buffer is buf
Flush(buf, op, arg) ==
    IF FlushSkips(buf, flushing)
      THEN /\ buffer' = buf
           /\ lastOp' = [op |-> op, arg |-> arg, flush |-> "noop"]
           /\ UNCHANGED <<flushing, batches, awaiting, sends, promises>>
      ELSE /\ flushing' = TRUE
           /\ buffer' = <<>>
           /\ batches' = Append(batches, SpliceAll(buf))
           /\ promises' = Append(promises, [sendEvents |-> "pending", flush |-> "pending"])
           /\ awaiting' = Len(batches) + 1
           /\ sends' = [e \in EventIds |->
                          IF e \in SendTargets(SpliceAll(buf))
                            THEN NewSend(Len(batches) + 1, config)
                          ELSE sends[e]]
           /\ lastOp' = [op |-> op, arg |-> arg, flush |-> "started"]

\* Promise.all(promises) of batch b has settled
PromiseAllSettled(b) ==
    \/ \E e \in Range(batches[b]) : sends[e].phase = "failed"
    \/ \A e \in Range(batches[b]) : sends[e].phase = "ok"

\* Promise.all(promises) of batch b was fulfilled (every send succeeded)
PromiseAllFulfilled(b) == \A e \in Range(batches[b]) : sends[e].phase = "ok"

SendEventsResultRethrow(allOk) == IF allOk THEN "resolved" ELSE "rejected"

\* sendEvents: the try branch logs success, the catch branch logs a warning
\* and does not rethrow
SendEventsResult(allOk) == IF allOk THEN "resolved" ELSE "resolved"

\* flush: try { await sendEvents } catch { log } finally { flushing = false }
FlushResult(sendResult) == IF sendResult = "resolved" THEN "resolved" ELSE "resolved"

\* ------------------------------------------------------ addToBuffer guards
EnqueueRejectsNever(cl) == FALSE

\* if (state.closed) { warn; return }
EnqueueRejects(cl) == cl

SizeTriggerStrict(len, batchSize) == len > batchSize

SizeTriggerNever(len, batchSize) == FALSE

\* if (state.buffer.length >= config.batchSize) flush()
SizeTrigger(len, batchSize) == len >= batchSize

\* ------------------------------------------------------------------- close
CloseSkipsNever(cl) == FALSE

\* if (state.closed) return
CloseSkips(cl) == cl

CloseSetsClosedForgot == FALSE

\* state.closed = true
CloseSetsClosed == TRUE

stopFlushTimerForgot(timer) == timer

\* stopFlushTimer(): clearInterval, state.flushTimer = null
stopFlushTimer(timer) == FALSE

startFlushTimerForgot == FALSE

\* startFlushTimer() at construction: state.flushTimer is set
startFlushTimer == TRUE

\* ----------------------------------------------------------------- actions
\* addToBuffer(event) for the next event of the producer, at most maxEv events
Enqueue(maxEv) ==
    /\ nextId <= maxEv
    /\ nextId' = nextId + 1
    /\ IF EnqueueRejects(closed)
         THEN /\ lastOp' = [op |-> "enqueue", arg |-> nextId, flush |-> "none"]
              /\ UNCHANGED <<buffer, flushing, batches, awaiting, sends, promises>>
         ELSE LET buf == AppendStep(buffer, nextId, config.queueSizeLimit)
              IN  IF SizeTrigger(Len(buf), config.batchSize)
                    THEN Flush(buf, "enqueue", nextId)
                    ELSE /\ buffer' = buf
                         /\ lastOp' = [op |-> "enqueue", arg |-> nextId, flush |-> "none"]
                         /\ UNCHANGED <<flushing, batches, awaiting, sends, promises>>
    /\ UNCHANGED <<config, flushTimer, closed, closePc>>
    /\ UNCHANGED levelVars

\* the setInterval callback
Tick ==
    /\ flushTimer
    /\ Flush(buffer, "tick", 0)
    /\ UNCHANGED <<config, flushTimer, closed, closePc, nextId>>
    /\ UNCHANGED levelVars

\* close()
Close ==
    IF CloseSkips(closed)
      THEN /\ lastOp' = [op |-> "close", arg |-> 0, flush |-> "none"]
           /\ UNCHANGED <<config, buffer, flushTimer, closed, flushing, batches,
                          awaiting, sends, closePc, nextId, promises>>
           /\ UNCHANGED levelVars
      ELSE /\ closed' = CloseSetsClosed
           /\ flushTimer' = stopFlushTimer(flushTimer)
           /\ Flush(buffer, "close", 0)
           /\ closePc' = IF FlushSkips(buffer, flushing) THEN "resume" ELSE "awaitFlush"
           /\ UNCHANGED <<config, nextId>>
           /\ UNCHANGED levelVars

\* the fetch of event e's current attempt completes with outcome o
AttemptDone(e, o) ==
    /\ sends[e].phase = "http"
    /\ o.kind = "abort" => \E t \in sends[e].timers : t.attempt = sends[e].attempt
    /\ sends' = [sends EXCEPT ![e] = AfterAttempt(sends[e], o, config)]
    /\ lastOp' = [op |-> "attemptDone", arg |-> e, flush |-> "none"]
    /\ UNCHANGED <<config, buffer, flushTimer, closed, flushing, batches,
                   awaiting, closePc, nextId, promises>>
    /\ UNCHANGED levelVars

\* the backoff sleep of event e's send expires
SleepDone(e) ==
    /\ sends[e].phase = "sleep"
    /\ sends' = [sends EXCEPT ![e] = AfterSleep(sends[e], config)]
    /\ lastOp' = [op |-> "sleepDone", arg |-> e, flush |-> "none"]
    /\ UNCHANGED <<config, buffer, flushTimer, closed, flushing, batches,
                   awaiting, closePc, nextId, promises>>
    /\ UNCHANGED levelVars

\* sendEvents returns to flush(), whose finally block clears state.flushing
FlushEnd ==
    /\ awaiting # 0
    /\ PromiseAllSettled(awaiting)
    /\ flushing' = FlushingAfterFlush(flushing)
    /\ awaiting' = 0
    /\ closePc' = IF closePc = "awaitFlush" THEN "resume" ELSE closePc
    /\ lastOp' = [op |-> "flushEnd", arg |-> awaiting, flush |-> "none"]
    /\ LET r == SendEventsResult(PromiseAllFulfilled(awaiting))
       IN  promises' = [promises EXCEPT ![awaiting] =
                          [sendEvents |-> r, flush |-> FlushResult(r)]]
    /\ UNCHANGED <<config, buffer, flushTimer, closed, batches, sends, nextId>>
    /\ UNCHANGED levelVars

\* close() resumes after `await flush()` and returns
CloseReturn ==
    /\ closePc = "resume"
    /\ closePc' = "returned"
    /\ lastOp' = [op |-> "closeReturn", arg |-> 0, flush |-> "none"]
    /\ UNCHANGED <<config, buffer, flushTimer, closed, flushing, batches,
                   awaiting, sends, nextId, promises>>
    /\ UNCHANGED levelVars

\* ------------------------------------------------------------------ levels
\* strings are sequences of one-character strings
UpperChars == <<"A", "B", "C", "D", "E", "F", "G", "H", "I", "J", "K", "L", "M", "N", "O", "P", "Q", "R", "S", "T", "U", "V", "W", "X", "Y", "Z">>
LowerChars == <<"a", "b", "c", "d", "e", "f", "g", "h", "i", "j", "k", "l", "m", "n", "o", "p", "q", "r", "s", "t", "u", "v", "w", "x", "y", "z">>

\* String.prototype.toLowerCase, character by character
LowerChar(c) ==
    IF \E i \in 1..Len(UpperChars) : UpperChars[i] = c
      THEN LowerChars[CHOOSE i \in 1..Len(UpperChars) : UpperChars[i] = c]
      ELSE c

toLowerCase(str) == [i \in 1..Len(str) |-> LowerChar(str[i])]

\* PINO_LEVELS: level -> name, undefined (<<>>) for any other key
PINO_LEVELS(level) ==
    IF level = 10 THEN <<"t", "r", "a", "c", "e">>
    ELSE IF level = 20 THEN <<"d", "e", "b", "u", "g">>
    ELSE IF level = 30 THEN <<"i", "n", "f", "o">>
    ELSE IF level = 40 THEN <<"w", "a", "r", "n">>
    ELSE IF level = 50 THEN <<"e", "r", "r", "o", "r">>
    ELSE IF level = 60 THEN <<"f", "a", "t", "a", "l">>
    ELSE <<>>

\* LEVEL_TO_TYPE
LEVEL_TO_TYPE(levelName) ==
    IF levelName = <<"t", "r", "a", "c", "e">> THEN "Trace"
    ELSE IF levelName = <<"d", "e", "b", "u", "g">> THEN "Debug"
    ELSE IF levelName = <<"i", "n", "f", "o">> THEN "Information"
    ELSE IF levelName = <<"w", "a", "r", "n">> THEN "Warning"
    ELSE IF levelName = <<"e", "r", "r", "o", "r">> THEN "Error"
    ELSE "Critical"

\* own keys of MIN_LEVEL_VALUES
MinLevelKeys == {<<"t", "r", "a", "c", "e">>, <<"d", "e", "b", "u", "g">>, <<"i", "n", "f", "o">>, <<"w", "a", "r", "n">>, <<"e", "r", "r", "o", "r">>, <<"f", "a", "t", "a", "l">>}

MIN_LEVEL_VALUES(key) ==
    IF key = <<"t", "r", "a", "c", "e">> THEN 10
    ELSE IF key = <<"d", "e", "b", "u", "g">> THEN 20
    ELSE IF key = <<"i", "n", "f", "o">> THEN 30
    ELSE IF key = <<"w", "a", "r", "n">> THEN 40
    ELSE IF key = <<"e", "r", "r", "o", "r">> THEN 50
    ELSE 60

\* property names every object literal inherits from Object.prototype
ObjectPrototypeKeys == {<<"c", "o", "n", "s", "t", "r", "u", "c", "t", "o", "r">>, <<"_", "_", "p", "r", "o", "t", "o", "_", "_">>, <<"t", "o", "S", "t", "r", "i", "n", "g">>, <<"v", "a", "l", "u", "e", "O", "f">>, <<"h", "a", "s", "O", "w", "n", "P", "r", "o", "p", "e", "r", "t", "y">>}

mapLevelToTypeNearest(level) ==
    IF PINO_LEVELS(level) # <<>> THEN LEVEL_TO_TYPE(PINO_LEVELS(level))
    ELSE IF level < 15 THEN "Trace"
    ELSE IF level < 25 THEN "Debug"
    ELSE IF level < 35 THEN "Information"
    ELSE IF level < 45 THEN "Warning"
    ELSE IF level < 55 THEN "Error"
    ELSE "Critical"

mapLevelToType(level) ==
    IF PINO_LEVELS(level) # <<>> THEN LEVEL_TO_TYPE(PINO_LEVELS(level))
    ELSE IF level < 10 THEN "Trace"
    ELSE IF level < 20 THEN "Trace"
    ELSE IF level < 30 THEN "Debug"
    ELSE IF level < 40 THEN "Information"
    ELSE IF level < 50 THEN "Warning"
    ELSE IF level < 60 THEN "Error"
    ELSE "Critical"

mapLevelToNameNearest(level) ==
    IF PINO_LEVELS(level) # <<>> THEN PINO_LEVELS(level)
    ELSE IF level < 15 THEN <<"t", "r", "a", "c", "e">>
    ELSE IF level < 25 THEN <<"d", "e", "b", "u", "g">>
    ELSE IF level < 35 THEN <<"i", "n", "f", "o">>
    ELSE IF level < 45 THEN <<"w", "a", "r", "n">>
    ELSE IF level < 55 THEN <<"e", "r", "r", "o", "r">>
    ELSE <<"f", "a", "t", "a", "l">>

mapLevelToName(level) ==
    IF PINO_LEVELS(level) # <<>> THEN PINO_LEVELS(level)
    ELSE IF level < 20 THEN <<"t", "r", "a", "c", "e">>
    ELSE IF level < 30 THEN <<"d", "e", "b", "u", "g">>
    ELSE IF level < 40 THEN <<"i", "n", "f", "o">>
    ELSE IF level < 50 THEN <<"w", "a", "r", "n">>
    ELSE IF level < 60 THEN <<"e", "r", "r", "o", "r">>
    ELSE <<"f", "a", "t", "a", "l">>

\* MIN_LEVEL_VALUES[levelName.toLowerCase()] ?? 10: an own key gives its
\* number, an inherited property (not nullish) is returned as it is, any
\* other key gives undefined and so 10
getLevelValue(levelName) ==
    LET key == toLowerCase(levelName)
    IN  IF key \in MinLevelKeys
          THEN [kind |-> "number", n |-> MIN_LEVEL_VALUES(key)]
        ELSE IF key \in ObjectPrototypeKeys
          THEN [kind |-> "object", n |-> 0]
        ELSE [kind |-> "number", n |-> 10]

\* level >= minValue; a non-number minValue converts to NaN and compares false
meetsMinimumLevel(level, minimumLevel) ==
    LET minValue == getLevelValue(minimumLevel)
    IN  minValue.kind = "number" /\ level >= minValue.n

\* ---------------------------------------------------------- specifications
\* no record is being looked at
NoLog == [level |-> 0, minimumLevel |-> <<>>]
NoLogOut == [done |-> FALSE]

InitLevelsIdle == logObj = NoLog /\ logOut = NoLogOut

InitState ==
    /\ buffer = <<>>
    /\ flushTimer = startFlushTimer
    /\ closed = FALSE
    /\ flushing = FALSE
    /\ batches = <<>>
    /\ awaiting = 0
    /\ sends = [e \in EventIds |-> NoSend]
    /\ closePc = "idle"
    /\ nextId = 1
    /\ lastOp = [op |-> "init", arg |-> 0, flush |-> "none"]
    /\ promises = <<>>

\* outcomes of an HTTP attempt in the transport runs
TransportOutcomes == {Response(200, TRUE), Response(404, TRUE), Response(500, TRUE)}

Init ==
    /\ config \in [batchSize : BatchSizes, queueSizeLimit : QueueSizeLimits,
                   retryAttempts : 0..MaxRetryT, retryDelay : {1000},
                   timeout : {DefaultTimeout}]
    /\ InitState
    /\ InitLevelsIdle

Next ==
    \/ Enqueue(MaxEvents)
    \/ Tick
    \/ Close
    \/ \E e \in EventIds, o \in TransportOutcomes : AttemptDone(e, o)
    \/ \E e \in EventIds : SleepDone(e)
    \/ FlushEnd
    \/ CloseReturn

Spec == Init /\ [][Next]_vars

\* transport runs checked for progress: the same handlers, a producer of
\* MaxEventsLive events
NextLive ==
    \/ Enqueue(MaxEventsLive)
    \/ Tick
    \/ Close
    \/ \E e \in EventIds, o \in TransportOutcomes : AttemptDone(e, o)
    \/ \E e \in EventIds : SleepDone(e)
    \/ FlushEnd
    \/ CloseReturn

\* the event loop runs what is ready: every fetch ends (response, network
\* error or its abort timer), every backoff sleep expires, a settled promise
\* runs its continuation, and the interval timer fires while it is set
Fairness ==
    /\ \A e \in EventIds : WF_vars(\E o \in TransportOutcomes : AttemptDone(e, o))
    /\ \A e \in EventIds : WF_vars(SleepDone(e))
    /\ WF_vars(FlushEnd)
    /\ WF_vars(CloseReturn)
    /\ WF_vars(Tick)

SpecLive == Init /\ [][NextLive]_vars /\ Fairness

\* delivery-client runs: one event, flushed as soon as it is enqueued, with
\* every kind of attempt outcome
ClientStatuses == {200, 304, 400, 404, 429, 499, 500, 503}

ClientOutcomes ==
    {Response(st, TRUE) : st \in ClientStatuses}
      \cup {Response(200, FALSE), Abort, NetworkFailure}

InitClient ==
    /\ config \in [batchSize : {1}, queueSizeLimit : {1},
                   retryAttempts : 0..MaxRetry, retryDelay : RetryDelays,
                   timeout : Timeouts]
    /\ InitState
    /\ InitLevelsIdle

NextClient ==
    \/ Enqueue(1)
    \/ Tick
    \/ Close
    \/ \E e \in EventIds, o \in ClientOutcomes : AttemptDone(e, o)
    \/ \E e \in EventIds : SleepDone(e)
    \/ FlushEnd
    \/ CloseReturn

SpecClient == InitClient /\ [][NextClient]_vars

\* level runs: the exported level functions applied to one numeric level and
\* one minimum-level name
Levels == (0 - MaxLevel)..MaxLevel

LevelNameInputs ==
    {<<"t", "r", "a", "c", "e">>,
     <<"T", "R", "A", "C", "E">>,
     <<"d", "e", "b", "u", "g">>,
     <<"D", "e", "b", "u", "g">>,
     <<"i", "n", "f", "o">>,
     <<"I", "n", "f", "o">>,
     <<"I", "N", "F", "O">>,
     <<"w", "a", "r", "n">>,
     <<"W", "A", "R", "N">>,
     <<"e", "r", "r", "o", "r">>,
     <<"E", "R", "R", "O", "R">>,
     <<"f", "a", "t", "a", "l">>,
     <<"F", "a", "t", "a", "l">>,
     <<"u", "n", "k", "n", "o", "w", "n">>,
     <<"v", "e", "r", "b", "o", "s", "e">>,
     <<>>,
     <<"t", "o", "S", "t", "r", "i", "n", "g">>,
     <<"c", "o", "n", "s", "t", "r", "u", "c", "t", "o", "r">>,
     <<"_", "_", "p", "r", "o", "t", "o", "_", "_">>}

\* mapLevelToType, mapLevelToName, getLevelValue and meetsMinimumLevel are
\* applied to logObj
ApplyLevelFunctions ==
    /\ ~logOut.done
    /\ logOut' = [done |-> TRUE,
                  type |-> mapLevelToType(logObj.level),
                  levelName |-> mapLevelToName(logObj.level),
                  minValue |-> getLevelValue(logObj.minimumLevel),
                  meets |-> meetsMinimumLevel(logObj.level, logObj.minimumLevel)]
    /\ UNCHANGED <<config, buffer, flushTimer, closed, flushing, batches,
                   awaiting, sends, closePc, nextId, lastOp, promises, logObj>>

InitLevels ==
    /\ config = [batchSize |-> 1, queueSizeLimit |-> 1, retryAttempts |-> 0,
                 retryDelay |-> 1000, timeout |-> DefaultTimeout]
    /\ InitState
    /\ logObj \in [level : Levels, minimumLevel : LevelNameInputs]
    /\ logOut = NoLogOut

NextLevels == ApplyLevelFunctions

SpecLevels == InitLevels /\ [][NextLevels]_vars

TypeOK ==
    /\ buffer \in Seq(EventIds)
    /\ flushTimer \in BOOLEAN /\ closed \in BOOLEAN /\ flushing \in BOOLEAN
    /\ awaiting \in 0..Len(batches)
    /\ closePc \in {"idle", "awaitFlush", "resume", "returned"}
    /\ nextId \in 1..(MaxEvents + 1)
    /\ Len(promises) = Len(batches)
    /\ logOut.done \in BOOLEAN

\* ------------------------------------------------------------------ claims
\* a sendEventWithRetry call that has not finished
Outstanding(e) == sends[e].phase \in {"http", "sleep"}

\* events accepted by addToBuffer that left the buffer without being drained
Evicted ==
    {e \in 1..(nextId - 1) : e \notin Range(buffer) /\ sends[e].phase = "none"}

\* C1 as stated: in every reachable state the pending buffer holds at most
\* queueSizeLimit events, for any configured queueSizeLimit and batchSize.
C1_BufferWithinLimit == Len(buffer) <= config.queueSizeLimit

\* C1 amended: the pending buffer holds at most queueSizeLimit events when
\* queueSizeLimit >= 1, and at most one event when queueSizeLimit is 0.
C1_BufferWithinLimitOrOne == Len(buffer) <= Max(config.queueSizeLimit, 1)

\* an event was enqueued into a full buffer and the oldest one was evicted
C1_Witness ==
    /\ ~closed
    /\ lastOp.op = "enqueue"
    /\ config.queueSizeLimit >= 2
    /\ Len(buffer) = config.queueSizeLimit
    /\ Evicted # {}

\* C2: an accepted enqueue of e into a buffer holding exactly queueSizeLimit
\* events b1..bn leaves b2..bn followed by e after the append step (which is
\* the buffer, or the batch when the same call drains it into a flush).
C2_DropOldest ==
    [][(nextId' = nextId + 1 /\ ~closed /\ Len(buffer) = config.queueSizeLimit)
        => LET after == IF Len(buffer) = 0 THEN <<nextId>>
                        ELSE Tail(buffer) \o <<nextId>>
           IN  \/ buffer' = after /\ batches' = batches
               \/ /\ buffer' = <<>>
                  /\ batches' = Append(batches, after)]_vars

\* the buffer held two events, the head was evicted and the new event appended
C2_Witness ==
    /\ ~closed
    /\ lastOp.op = "enqueue"
    /\ config.queueSizeLimit = 2
    /\ Len(buffer) = 2
    /\ buffer[2] = lastOp.arg
    /\ buffer[1] = lastOp.arg - 1
    /\ (lastOp.arg - 2) \in Evicted

\* C3: a flush() call made by the timer, by addToBuffer or by close() while
\* state.flushing is true removes nothing from the buffer, starts no send and
\* leaves state.flushing as it is.
C3_SingleFlightGuard ==
    [][(flushing /\ lastOp' # lastOp /\ lastOp'.op \in {"tick", "close", "enqueue"})
        => /\ flushing' = flushing
           /\ batches' = batches
           /\ sends' = sends
           /\ awaiting' = awaiting
           /\ buffer' = IF lastOp'.op = "enqueue" /\ ~closed
                          THEN AppendStep(buffer, nextId, config.queueSizeLimit)
                          ELSE buffer]_vars

\* the timer fired while a flush was in progress and events were pending
C3_Witness ==
    /\ lastOp.op = "tick"
    /\ flushing
    /\ awaiting # 0
    /\ Len(buffer) > 0

\* C4 as stated: delivery attempts of two different drained batches are never
\* outstanding at the same time.
C4_OneFlushActive ==
    \A e1, e2 \in EventIds :
        (Outstanding(e1) /\ Outstanding(e2)) => sends[e1].batch = sends[e2].batch

\* C5 as stated: when sendEvents returns to flush(), every send of its batch
\* has finished.
C5_SendEventsWaitsForAll ==
    lastOp.op = "flushEnd"
      => \A e \in Range(batches[lastOp.arg]) : ~Outstanding(e)

\* C6 as stated: in every state where close() has returned, state.flushing is
\* false and no send of any batch is outstanding.
C6_CloseWaitsForFlush ==
    closePc = "returned"
      => (~flushing /\ \A e \in EventIds : ~Outstanding(e))

\* C7 as stated: the buffer is empty in every state where close() has
\* returned.
C7_CloseDrainsBuffer == closePc = "returned" => buffer = <<>>

\* HTTP status of a non-retryable client error: 4xx other than 429
IsClientErrorOutcome(o) ==
    o.kind = "response" /\ o.status >= 400 /\ o.status <= 499 /\ o.status # 429

\* retryable failures: 429, 5xx, timeout, network error
IsRetryableOutcome(o) ==
    \/ o.kind \in {"abort", "network"}
    \/ o.kind = "response" /\ (o.status = 429 \/ (o.status >= 500 /\ o.status <= 599))

\* C8: the attempt that receives a 4xx status other than 429 is the last
\* attempt of its send: the send has failed with that error, no later attempt
\* was made and no backoff delay followed it.
C8_ClientErrorNotRetried ==
    \A e \in EventIds :
        LET s == sends[e]
        IN  \A i \in 1..Len(s.outcomes) :
                IsClientErrorOutcome(s.outcomes[i])
                  => /\ i = Len(s.outcomes)
                     /\ s.phase = "failed"
                     /\ Tries(s) = i
                     /\ Len(s.delays) = i - 1
                     /\ s.lastError =
                          [name |-> "Error", code |-> HttpCode(s.outcomes[i].status)]

\* a 404 on the second attempt ended a send that had retries left
C8_Witness ==
    \E e \in EventIds :
        /\ config.retryAttempts = 2
        /\ sends[e].phase = "failed"
        /\ Len(sends[e].outcomes) = 2
        /\ sends[e].outcomes[1] = Response(500, TRUE)
        /\ sends[e].outcomes[2] = Response(404, TRUE)

\* C9: a send whose attempts all failed with retryable failures makes
\* exactly retryAttempts + 1 attempts and then fails with the last error.
C9_RetryExhaustion ==
    \A e \in EventIds :
        LET s == sends[e]
            n == Len(s.outcomes)
        IN  (n > 0 /\ \A i \in 1..n : IsRetryableOutcome(s.outcomes[i]))
              => /\ Tries(s) <= config.retryAttempts + 1
                 /\ (s.phase = "failed" <=> n = config.retryAttempts + 1)
                 /\ s.phase # "ok"
                 /\ s.phase = "failed" => s.lastError = sendEvent(s.outcomes[n]).error

\* three 429 responses exhausted a send configured with two retries
C9_Witness ==
    \E e \in EventIds :
        /\ config.retryAttempts = 2
        /\ sends[e].phase = "failed"
        /\ sends[e].outcomes =
             <<Response(429, TRUE), Response(429, TRUE), Response(429, TRUE)>>

\* C10: the k-th delay of a send is retryDelay * 2^(k-1), and delays lie only
\* between two attempts: none before attempt 0, none after the last attempt
\* made, none after attempt index retryAttempts.
C10_ExponentialBackoff ==
    \A e \in EventIds :
        LET s == sends[e]
        IN  /\ \A k \in 1..Len(s.delays) :
                  s.delays[k] = config.retryDelay * (2 ^ (k - 1))
            /\ Len(s.delays) <= config.retryAttempts
            /\ s.phase = "http" => Len(s.delays) = Len(s.outcomes)
            /\ s.phase = "sleep" => Len(s.delays) = Len(s.outcomes)
            /\ s.phase \in {"ok", "failed"} => Len(s.delays) = Len(s.outcomes) - 1
            /\ s.phase = "none" => s.delays = <<>>

\* a send waited retryDelay and then 2 * retryDelay before its third attempt
C10_Witness ==
    \E e \in EventIds :
        /\ config.retryDelay = 1000
        /\ sends[e].phase = "http"
        /\ sends[e].attempt = 2
        /\ sends[e].delays = <<1000, 2000>>

\* a response with a 2xx status
Is2xxOutcome(o) == o.kind = "response" /\ o.status >= 200 /\ o.status <= 299

\* C11 as stated: when the first j attempts fail with retryable failures and
\* attempt j+1 gets a 2xx response, the send has succeeded with exactly j+1
\* attempts, after delays retryDelay*1, retryDelay*2, ...
C11_SuccessAfterRetries ==
    \A e \in EventIds :
        LET s == sends[e]
            n == Len(s.outcomes)
        IN  (/\ n > 0
             /\ \A i \in 1..(n - 1) : IsRetryableOutcome(s.outcomes[i])
             /\ Is2xxOutcome(s.outcomes[n]))
              => /\ s.phase = "ok"
                 /\ Tries(s) = n
                 /\ s.delays = [k \in 1..(n - 1) |-> config.retryDelay * (2 ^ (k - 1))]

\* C12 as stated: an attempt that receives a 2xx response is a successful
\* delivery whatever the body holds, and it is the last attempt of its send.
C12_SuccessByStatusAlone ==
    \A e \in EventIds :
        \A i \in 1..Len(sends[e].outcomes) :
            Is2xxOutcome(sends[e].outcomes[i])
              => (i = Len(sends[e].outcomes) /\ sends[e].phase = "ok")

\* C13: no sendEvents call and no flush() call ends in a rejected promise,
\* whatever the outcomes of the sends of its batch.
C13_NeverRaises ==
    \A b \in 1..Len(promises) :
        promises[b].sendEvents # "rejected" /\ promises[b].flush # "rejected"

\* sendEvents returned normally for a batch with a failed send
C13_Witness ==
    \E b \in 1..Len(promises) :
        /\ promises[b].sendEvents = "resolved"
        /\ promises[b].flush = "resolved"
        /\ \E e \in Range(batches[b]) : sends[e].phase = "failed"

\* C14: a close() call made when close() was already called starts no flush
\* and leaves the buffer, the timer and the flags as they are.
C14_CloseIdempotent ==
    [][(closed /\ lastOp' # lastOp /\ lastOp'.op = "close")
        => UNCHANGED <<buffer, flushTimer, closed, flushing, batches, awaiting,
                       sends, promises, closePc>>]_vars

\* close() was called again with events pending and no flush in progress
C14_Witness ==
    /\ closed
    /\ lastOp.op = "close"
    /\ lastOp.flush = "none"
    /\ ~flushing
    /\ Len(buffer) > 0

\* C15: once close() has been called, addToBuffer leaves the buffer as it is
\* and triggers no flush.
C15_EnqueueAfterCloseRejected ==
    [][(closed /\ nextId' = nextId + 1)
        => UNCHANGED <<buffer, flushing, batches, awaiting, sends, promises>>]_vars

\* an event was offered after close() to an idle transport whose buffer was
\* at the batch size and at the queue limit
C15_Witness ==
    /\ closed
    /\ lastOp.op = "enqueue"
    /\ ~flushing
    /\ Len(buffer) >= config.batchSize
    /\ Len(buffer) >= config.queueSizeLimit
    /\ Len(buffer) > 0

\* C16 as stated: a flush attempt is triggered only by the enqueue that takes
\* the buffer length from below batchSize to batchSize or above, not by
\* enqueues made while the length already is at or above batchSize.
C16_OneAttemptPerCrossing ==
    [][(nextId' = nextId + 1 /\ lastOp'.flush # "none")
        => Len(buffer) < config.batchSize]_vars

\* C16 amended: every accepted enqueue that leaves the buffer length at or
\* above batchSize triggers one flush attempt, also when the length already
\* was at or above batchSize; the attempt starts a flush operation only when
\* no flush is in progress and is a no-op otherwise.
C16_AttemptPerEnqueueAtThreshold ==
    [][(nextId' = nextId + 1 /\ ~closed)
        => LET len == Len(AppendStep(buffer, nextId, config.queueSizeLimit))
           IN  /\ len >= config.batchSize
                    => lastOp'.flush = (IF flushing THEN "noop" ELSE "started")
               /\ len < config.batchSize => lastOp'.flush = "none"
               /\ (lastOp'.flush = "started") <=> (Len(batches') = Len(batches) + 1)
               /\ lastOp'.flush # "started" => batches' = batches]_vars

\* an enqueue made while a flush was in progress and the buffer already held
\* batchSize events attempted a flush again
C16_Witness ==
    /\ lastOp.op = "enqueue"
    /\ lastOp.flush = "noop"
    /\ flushing
    /\ Len(buffer) > config.batchSize

\* C17 as stated: no batch handed to sendEvents holds more than batchSize
\* events.
C17_BatchAtMostBatchSize ==
    \A b \in 1..Len(batches) : Len(batches[b]) <= config.batchSize

\* the handlers that call flush()
FlushTriggers == {"enqueue", "tick", "close"}

\* the events the claim's general part speaks of in a step: those in the
\* buffer and the one being accepted, in a step that is no timer tick and no
\* close() and leaves the buffer length below batchSize without a flush
StaysBelowBatchSize ==
    /\ lastOp' # lastOp
    /\ lastOp'.op \notin {"tick", "close"}
    /\ batches' = batches
    /\ Len(buffer) < config.batchSize
    /\ Len(buffer') < config.batchSize

PendingOrAccepted ==
    Range(buffer) \cup
      (IF lastOp'.op = "enqueue" /\ nextId' # nextId /\ ~closed
         THEN {nextId} ELSE {})

\* C18 as stated: with batchSize = 2, enqueueing A then B into an empty
\* buffer with no flush in progress starts a flush of exactly [A, B]; a flush
\* starts only in an enqueue that reaches batchSize, a timer tick or close();
\* an event enqueued while the buffer length stays below batchSize remains in
\* the buffer, unsent, until a timer tick or close().
C18_FlushOnTriggersAnyLimit ==
    [][/\ (config.batchSize = 2 /\ ~closed /\ ~flushing /\ nextId = 2
             /\ lastOp.op = "enqueue" /\ nextId' = 3)
           => (batches' = Append(batches, <<1, 2>>) /\ buffer' = <<>>)
       /\ batches' # batches
           => /\ lastOp'.op \in FlushTriggers
              /\ Len(batches') = Len(batches) + 1
              /\ lastOp'.op = "enqueue"
                   => Len(batches'[Len(batches')]) >= config.batchSize
       /\ StaysBelowBatchSize
           => \A e \in PendingOrAccepted :
                 e \in Range(buffer') /\ sends'[e].phase = "none"]_vars

\* C18 amended: with batchSize = 2 and queueSizeLimit >= 2, enqueueing A then
\* B into an empty buffer with no flush in progress starts a flush of exactly
\* [A, B]; a flush starts only in an enqueue that reaches batchSize, a timer
\* tick or close(); an event enqueued while the length stays below batchSize
\* remains in the buffer, unsent, until a timer tick or close() when
\* queueSizeLimit >= batchSize, and when queueSizeLimit < batchSize it leaves
\* the buffer before that only unsent, as the oldest event evicted by a later
\* enqueue.
C18_FlushOnTriggers ==
    [][/\ (config.batchSize = 2 /\ config.queueSizeLimit >= 2 /\ ~closed
             /\ ~flushing /\ lastOp.op = "enqueue" /\ buffer = <<lastOp.arg>>
             /\ nextId' = nextId + 1)
           => /\ batches' = Append(batches, <<lastOp.arg, nextId>>)
              /\ buffer' = <<>>
              /\ flushing'
              /\ sends'[lastOp.arg].phase = "http"
              /\ sends'[nextId].phase = "http"
       /\ batches' # batches
           => /\ lastOp'.op \in FlushTriggers
              /\ Len(batches') = Len(batches) + 1
              /\ lastOp'.op = "enqueue"
                   => Len(batches'[Len(batches')]) >= config.batchSize
       /\ (lastOp' # lastOp /\ lastOp'.op \notin FlushTriggers)
           => (buffer' = buffer /\ batches' = batches)
       /\ (nextId' = nextId + 1 /\ ~closed
             /\ config.queueSizeLimit >= config.batchSize
             /\ Len(buffer) + 1 < config.batchSize)
           => (buffer' = Append(buffer, nextId) /\ batches' = batches
                 /\ sends' = sends)
       /\ StaysBelowBatchSize
           => \A e \in PendingOrAccepted :
                 /\ sends'[e].phase = "none"
                 /\ \/ e \in Range(buffer')
                    \/ /\ config.queueSizeLimit < config.batchSize
                       /\ lastOp'.op = "enqueue"
                       /\ e = Head(buffer)
                       /\ nextId \in Range(buffer')]_vars

\* the second of two enqueues started a flush of exactly those two events
C18_Witness ==
    /\ config.batchSize = 2
    /\ lastOp.op = "enqueue"
    /\ lastOp.flush = "started"
    /\ buffer = <<>>
    /\ batches[Len(batches)] = <<lastOp.arg - 1, lastOp.arg>>

\* rank of an event type in severity order
TypeRank(type) ==
    IF type = "Trace" THEN 1
    ELSE IF type = "Debug" THEN 2
    ELSE IF type = "Information" THEN 3
    ELSE IF type = "Warning" THEN 4
    ELSE IF type = "Error" THEN 5
    ELSE IF type = "Critical" THEN 6
    ELSE 0

\* C19: mapLevelToType gives the category of the level's severity band:
\* below 20 Trace, 20..29 Debug, 30..39 Information, 40..49 Warning,
\* 50..59 Error, 60 and above Critical; the result is monotone in the level.
C19_LevelBands ==
    logOut.done
      => LET l == logObj.level
         IN  /\ l < 20 => logOut.type = "Trace"
             /\ (l >= 20 /\ l <= 29) => logOut.type = "Debug"
             /\ (l >= 30 /\ l <= 39) => logOut.type = "Information"
             /\ (l >= 40 /\ l <= 49) => logOut.type = "Warning"
             /\ (l >= 50 /\ l <= 59) => logOut.type = "Error"
             /\ l >= 60 => logOut.type = "Critical"
             /\ \A m \in Levels :
                    m <= l => TypeRank(mapLevelToType(m)) <= TypeRank(logOut.type)

\* a custom level at the top of the Debug band was mapped
C19_Witness ==
    /\ logOut.done
    /\ logObj.level = 29
    /\ logOut.type = "Debug"

\* spellings of the six level names among the inputs
SpellingsOf10 == {<<"t", "r", "a", "c", "e">>, <<"T", "R", "A", "C", "E">>}
SpellingsOf20 == {<<"d", "e", "b", "u", "g">>, <<"D", "e", "b", "u", "g">>}
SpellingsOf30 == {<<"i", "n", "f", "o">>, <<"I", "n", "f", "o">>, <<"I", "N", "F", "O">>}
SpellingsOf40 == {<<"w", "a", "r", "n">>, <<"W", "A", "R", "N">>}
SpellingsOf50 == {<<"e", "r", "r", "o", "r">>, <<"E", "R", "R", "O", "R">>}
SpellingsOf60 == {<<"f", "a", "t", "a", "l">>, <<"F", "a", "t", "a", "l">>}

\* the value the claim gives a minimum-level name: the level's number for any
\* spelling of the six names, 10 for every other name
ClaimedLevelValue(name) ==
    IF name \in SpellingsOf20 THEN 20
    ELSE IF name \in SpellingsOf30 THEN 30
    ELSE IF name \in SpellingsOf40 THEN 40
    ELSE IF name \in SpellingsOf50 THEN 50
    ELSE IF name \in SpellingsOf60 THEN 60
    ELSE 10

\* C20 as stated: getLevelValue gives the number of the level name in any
\* letter case and 10 for any unknown name, and meetsMinimumLevel is true
\* exactly when level >= that number.
C20_MeetsMinimumLevel ==
    logOut.done
      => /\ logOut.minValue = [kind |-> "number", n |-> ClaimedLevelValue(logObj.minimumLevel)]
         /\ logOut.meets <=> (logObj.level >= ClaimedLevelValue(logObj.minimumLevel))

\* the buffer as addToBuffer or the calling handler leaves it before flush()
BufferAtFlush ==
    IF lastOp'.op = "enqueue"
      THEN AppendStep(buffer, nextId, config.queueSizeLimit)
      ELSE buffer

\* C21: a flush that starts (buffer non-empty, flushing false) takes the whole
\* buffer in enqueue order as its batch and leaves the buffer empty in the
\* same step; a batch never changes afterwards, and an event accepted while
\* the flush is in progress goes to the buffer and into no batch.
C21_AtomicFullDrain ==
    [][ /\ \A b \in 1..Len(batches) :
               Len(batches') >= b /\ batches'[b] = batches[b]
        /\ Len(batches') <= Len(batches) + 1
        /\ (lastOp'.op \in {"tick", "close"} /\ lastOp' # lastOp
              /\ ~(lastOp'.op = "close" /\ closed)
              /\ buffer # <<>> /\ ~flushing)
             => Len(batches') = Len(batches) + 1
        /\ Len(batches') = Len(batches) + 1
             => /\ ~flushing /\ flushing'
                /\ BufferAtFlush # <<>>
                /\ batches'[Len(batches')] = BufferAtFlush
                /\ buffer' = <<>>
        /\ (lastOp'.op = "enqueue" /\ nextId' # nextId /\ ~closed /\ flushing)
             => /\ batches' = batches
                /\ buffer' = AppendStep(buffer, nextId, config.queueSizeLimit)
                /\ buffer'[Len(buffer')] = nextId
                /\ \A b \in 1..Len(batches') : nextId \notin Range(batches'[b])
      ]_vars

\* a flush took two events as its batch, and an event enqueued during its
\* network phase is in the buffer and not in that batch
C21_Witness ==
    /\ flushing
    /\ awaiting # 0
    /\ Len(batches[awaiting]) = 2
    /\ lastOp.op = "enqueue"
    /\ buffer = <<lastOp.arg>>
    /\ lastOp.arg \notin Range(batches[awaiting])

\* C22: every flush that sets flushing to true eventually sets it back to
\* false, whether the sends of its batch succeed or fail, when every HTTP
\* attempt terminates; flushing is true exactly while a flush is awaiting
\* sendEvents.
C22_FlushingReleased ==
    /\ [](flushing <=> awaiting # 0)
    /\ flushing ~> ~flushing

\* a flush whose batch had a failed send has ended and released the flag
C22_Witness ==
    /\ ~flushing
    /\ lastOp.op = "flushEnd"
    /\ \E e \in Range(batches[lastOp.arg]) : sends[e].phase = "failed"

\* C23: sendEvents starts exactly one sendEventWithRetry for each event of
\* the batch and none for an empty list; a send changes only by the
\* completion of its own attempt or the expiry of its own backoff sleep, so
\* the failure of one send neither cancels nor shortens another; a send that
\* is in progress can always complete its attempt, and it fails only on a
\* non-retryable error or after retryAttempts + 1 tries.
C23_IndependentSends ==
    /\ SendTargets(<<>>) = {}
    /\ [](\A e \in EventIds :
            /\ sends[e].phase = "failed"
                 => \/ isNonRetryableError(sends[e].lastError)
                    \/ Len(sends[e].outcomes) = config.retryAttempts + 1
            /\ sends[e].phase = "sleep"
                 => /\ ~isNonRetryableError(sends[e].lastError)
                    /\ Len(sends[e].outcomes) <= config.retryAttempts
            /\ sends[e].phase = "http"
                 => /\ Len(sends[e].outcomes) <= config.retryAttempts
                    /\ ENABLED AttemptDone(e, Response(200, TRUE))
            /\ sends[e].phase # "none"
                 => /\ sends[e].batch \in 1..Len(batches)
                    /\ e \in Range(batches[sends[e].batch])
                    /\ Tries(sends[e]) = sends[e].attempt + 1)
    /\ [][ /\ Len(batches') = Len(batches) + 1
             => \A e \in EventIds :
                   sends'[e] = IF e \in Range(batches'[Len(batches')])
                                 THEN NewSend(Len(batches'), config)
                                 ELSE sends[e]
           /\ Len(batches') = Len(batches)
             => \A e \in EventIds :
                   sends'[e] # sends[e]
                     => /\ lastOp'.op \in {"attemptDone", "sleepDone"}
                        /\ lastOp'.arg = e
                        /\ Outstanding(e)
         ]_vars

\* in one batch of two events, one send failed at its first attempt and the
\* other went on to a second attempt and succeeded
C23_Witness ==
    \E b \in 1..Len(batches) :
        /\ Len(batches[b]) = 2
        /\ sends[batches[b][1]].phase = "failed"
        /\ Len(sends[batches[b][1]].outcomes) = 1
        /\ sends[batches[b][2]].phase = "ok"
        /\ Len(sends[batches[b][2]].outcomes) = 2

\* C24: close() stops the periodic timer in the step that sets closed, so
\* the timer is never set while closed and no tick runs after close() was
\* called; the only flush that starts once close() was called is the one of
\* that close() step itself, and none starts after close() has returned.
C24_NoFlushAfterClose ==
    /\ [](closed => ~flushTimer)
    /\ [][ /\ closed => batches' = batches
           /\ (~closed /\ closed')
                => /\ lastOp'.op = "close"
                   /\ ~flushTimer'
                   /\ Len(batches') <= Len(batches) + 1
           /\ (lastOp'.op = "tick" /\ lastOp' # lastOp) => ~closed
           /\ closePc \in {"resume", "returned"} => batches' = batches
         ]_vars

\* close() has returned with an event left in the buffer and no flush in
\* progress, and no flush starts
C24_Witness ==
    /\ closed
    /\ closePc = "returned"
    /\ buffer # <<>>
    /\ ~flushing
    /\ lastOp.op = "flushEnd"

\* C25: while an attempt's fetch is pending exactly one timeout is armed, it
\* belongs to that attempt and has the configured duration, and none is armed
\* otherwise; each attempt arms its own; an attempt ended by its timeout fails
\* with code TIMEOUT, which is no HTTP-status code and is retryable: the send
\* sleeps and retries if attempts remain and fails otherwise.
C25_PerAttemptTimeout ==
    /\ \A st \in ClientStatuses : TimeoutCode # HttpCode(st)
    /\ [](\A e \in EventIds :
            sends[e].timers =
              IF sends[e].phase = "http"
                THEN {[attempt |-> sends[e].attempt, ms |-> config.timeout]}
                ELSE {})
    /\ [][ \A e \in EventIds :
             /\ (lastOp'.op = "sleepDone" /\ lastOp'.arg = e /\ sends'[e] # sends[e])
                  => /\ sends'[e].attempt = sends[e].attempt + 1
                     /\ sends[e].timers = {}
                     /\ sends'[e].timers =
                          {[attempt |-> sends'[e].attempt, ms |-> config.timeout]}
             /\ (lastOp'.op = "attemptDone" /\ lastOp'.arg = e /\ sends'[e] # sends[e]
                   /\ sends'[e].outcomes[Len(sends'[e].outcomes)] = Abort)
                  => /\ \E t \in sends[e].timers : t.attempt = sends[e].attempt
                     /\ sends'[e].lastError.code = TimeoutCode
                     /\ ~isNonRetryableError(sends'[e].lastError)
                     /\ sends'[e].phase =
                          IF sends[e].attempt < config.retryAttempts
                            THEN "sleep" ELSE "failed"
         ]_vars

\* the first attempt timed out, the second attempt was made under its own
\* timeout and succeeded
C25_Witness ==
    \E e \in EventIds :
        /\ sends[e].phase = "ok"
        /\ sends[e].outcomes = <<Abort, Response(200, TRUE)>>
        /\ config.timeout = 1

\* C26: while the transport is not closed, every event in the buffer
\* eventually leaves it (drained by a flush or evicted by overflow),
\* including one whose size trigger was a no-op because a flush was in
\* progress.
C26_NoStrandedEvents ==
    \A e \in EventIds : (e \in Range(buffer)) ~> (e \notin Range(buffer) \/ closed)

\* with batchSize 1, an event whose size trigger was skipped during the first
\* flush was drained by a timer tick after that flush ended
C26_Witness ==
    /\ config.batchSize = 1
    /\ ~closed
    /\ lastOp.op = "tick"
    /\ lastOp.flush = "started"
    /\ Len(batches) = 2
    /\ batches[1] = <<1>>
    /\ batches[2] = <<2>>

\* C27: the transport starts with closed false and the timer set; closed
\* becomes true only in a close() step, a close() step on an open transport
\* sets it, and no step of any handler resets it; the timer, once stopped,
\* is never set again.
C27_LifecycleMonotone ==
    /\ closed = FALSE
    /\ flushTimer = TRUE
    /\ [][ /\ closed => closed'
           /\ (~closed /\ closed') => lastOp'.op = "close"
           /\ (lastOp'.op = "close" /\ lastOp' # lastOp) => closed'
           /\ ~flushTimer => ~flushTimer'
         ]_vars

\* close() was called again after the first close() had returned: closed
\* stays true and the timer stays stopped
C27_Witness ==
    /\ closed
    /\ ~flushTimer
    /\ closePc = "returned"
    /\ lastOp.op = "close"

\* events that leave the buffer in a step without entering a batch
Dropped ==
    {e \in Range(buffer) :
        /\ e \notin Range(buffer')
        /\ \A b \in 1..Len(batches') : e \notin Range(batches'[b])}

\* events that enter a batch in a step
Drained ==
    {e \in EventIds :
        \E b \in (Len(batches) + 1)..Len(batches') : e \in Range(batches'[b])}

\* each event occurs at most once in the buffer and the batches together
HandedOverOnce ==
    /\ \A i, j \in 1..Len(buffer) : buffer[i] = buffer[j] => i = j
    /\ \A b \in 1..Len(batches) :
          /\ \A i, j \in 1..Len(batches[b]) : batches[b][i] = batches[b][j] => i = j
          /\ Range(batches[b]) \cap Range(buffer) = {}
          /\ \A c \in 1..Len(batches) :
                c # b => Range(batches[b]) \cap Range(batches[c]) = {}

\* a step of the transport conserves events: an accepted event enters the
\* buffer or the batch of the flush it triggers, a drained event comes from
\* the buffer or is the accepted one, and events are dropped only by an
\* enqueue, one at a time, the oldest first, when the buffer holds atLimit
\* events
ConservingStep(atLimit) ==
    /\ (lastOp'.op = "enqueue" /\ nextId' # nextId /\ ~closed)
         => nextId \in Range(buffer') \cup Drained
    /\ Drained \subseteq Range(buffer) \cup {nextId}
    /\ Range(buffer') \subseteq Range(buffer) \cup {nextId}
    /\ Dropped # {}
         => /\ lastOp'.op = "enqueue"
            /\ Dropped = {Head(buffer)}
            /\ Len(buffer) = atLimit

\* C28 as stated: an accepted event leaves the buffer only by being drained
\* into a batch or by drop-oldest eviction when the buffer holds exactly
\* queueSizeLimit events, and no event is in more than one batch.
C28_EventConservation ==
    /\ []HandedOverOnce
    /\ [][ConservingStep(config.queueSizeLimit)]_vars

\* C28 amended: as above, with eviction when the buffer holds queueSizeLimit
\* events for queueSizeLimit >= 1 and one event for queueSizeLimit = 0.
C28_EventConservationOrOne ==
    /\ []HandedOverOnce
    /\ [][ConservingStep(Max(config.queueSizeLimit, 1))]_vars

\* with a limit of at least one, an event was evicted from the full buffer
\* while an earlier batch was being sent
C28_Witness ==
    /\ ~closed
    /\ config.queueSizeLimit >= 1
    /\ Len(buffer) = config.queueSizeLimit
    /\ Len(batches) >= 1
    /\ lastOp.op = "enqueue"
    /\ \E e \in Evicted : \A b \in 1..Len(batches) : e > batches[b][1]

\* C29: for every numeric level, the type given by mapLevelToType is
\* LEVEL_TO_TYPE of the name given by mapLevelToName, so an event's type and
\* its data.level name the same band.
C29_TypeAgreesWithName ==
    logOut.done
      => /\ logOut.type = LEVEL_TO_TYPE(logOut.levelName)
         /\ logOut.levelName = mapLevelToName(logObj.level)
         /\ logOut.type = mapLevelToType(logObj.level)

\* a custom level between info and warn was mapped to both forms
C29_Witness ==
    /\ logOut.done
    /\ logObj.level = 37
    /\ logOut.type = "Information"
    /\ logOut.levelName = <<"i", "n", "f", "o">>

====
